---------------------------- MODULE Spec2Model ----------------------------
(***************************************************************************)
(* Drone light-show designer: the committed sequence collection, the       *)
(* active pointer, the preview, local storage (page.tsx) and the draft of  *)
(* the drawing canvas (drawing-canvas.tsx), with the pattern generators    *)
(* of the settings panel.                                                  *)
(*                                                                         *)
(* A user event is one action: the handler's batched state updates, the    *)
(* render that follows and every effect the render triggers, repeated      *)
(* until no effect sets state any more (React flushes effects before the   *)
(* next discrete event).  Object identity, which decides whether an effect *)
(* with a dependency array runs again, is modelled by the obj / arr        *)
(* tokens that live only inside one such event.                            *)
(*                                                                         *)
(* Coordinates are integers in units of 1/Unit pixel (metre for z).        *)
(* The drawing canvas is taken to stay mounted.                            *)
(*                                                                         *)
(* Spec is the page with the design tab shown.  PreviewSpec is the flight  *)
(* preview tab over a collection the page holds: the route selection, the  *)
(* playback clock and the drone the 3D scene renders.  World coordinates   *)
(* are exact fractions: integers in units of 1/WorldUnit over a common     *)
(* denominator d.  StudioSpec is the design tab with its settings panel    *)
(* after a start with nothing stored: clicks anywhere on either canvas,    *)
(* the altitude slider, the flight and LED settings and the generators     *)
(* that read them.  ColorSpec applies hslToRgb to a colour.                *)
(***************************************************************************)
EXTENDS Integers, Sequences, FiniteSets, TLC

VARIABLES
    sequences,            \* page.tsx: committed collection (DroneSequence[])
    activeSequence,       \* page.tsx: active id, NULL when none
    previewSequence,      \* page.tsx: <<>> (null) or <<generated sequence>>
    storage,              \* localStorage["drone-sequences"]
    currentDrawingColor,  \* page.tsx: colour given to clicked waypoints
    unsavedPoints,        \* drawing-canvas.tsx: draft points
    sequenceName,         \* drawing-canvas.tsx: draft name
    hasUnsavedChanges,    \* drawing-canvas.tsx: dirty flag
    currentAltitude,      \* drawing-canvas.tsx: altitude slider
    now,                  \* Date.now() at the last event
    mounted,              \* the components have mounted (load effect has run)
    appFailed,            \* a render threw: the tree is unmounted
    op,                   \* the last event: its name, the id it was given
                          \* and the active id it found
    currentTime,          \* page.tsx: timeline position handed to the preview
    selectedSequence,     \* FlightPreview: route chosen for display, or NULL
    isPlaying,            \* FlightPreview: playback is running
    localTime,            \* FlightPreview: playback clock
    drone,                \* Scene: <<>> or <<the DroneModel it renders>>
    path,                 \* Scene: <<>> or <<the FlightPath it renders>>
    flightSettings,       \* SettingsPanel: flight settings
    ledSettings,          \* SettingsPanel: LED settings
    swatch                \* a colour (h, s, l) and <<>> or <<its hslToRgb>>

vars == <<sequences, activeSequence, previewSequence, storage,
          currentDrawingColor, unsavedPoints, sequenceName,
          hasUnsavedChanges, currentAltitude, now, mounted, appFailed, op,
          currentTime, selectedSequence, isPlaying, localTime, drone, path,
          flightSettings, ledSettings, swatch>>

\* The flight preview tab.
sceneVars == <<currentTime, selectedSequence, isPlaying, localTime, drone, path>>

\* The settings panel.
panelVars == <<flightSettings, ledSettings, swatch>>

-----------------------------------------------------------------------------
(* Bounds of the model *)

\* Clock reading at start-up; larger than every generator timestamp.
ClockBase == 30000
\* Number of user events explored after the page has mounted.
MaxTicks == 5
\* Renders followed within one event.
MaxRounds == 6
\* Largest collection an earlier session left in storage.
MaxStored == 3
\* Number of user events explored in the studio.
MaxStudioEvents == 3

(* Program constants *)
canvasWidth == 400
canvasHeight == 300
CANVAS_CENTER_X == 200
CANVAS_CENTER_Y == 150
PixelsPerMeter == 3
DefaultAltitude == 20
SaveTail == 1000

\* Fixed-point unit: coordinates are stored multiplied by Unit, a multiple
\* of the pixels per metre and of the 1000 of the sine table.
Unit == PixelsPerMeter * 1000

NULL == 0
DefaultName == "New Sequence"

-----------------------------------------------------------------------------
(* Small helpers *)

Max(a, b) == IF a >= b THEN a ELSE b

RECURSIVE MaxTimestamp(_)
\* Math.max(...points.map(p => p.timestamp)) for a non-empty list
MaxTimestamp(points) ==
    IF Len(points) = 1 THEN points[1].timestamp
    ELSE Max(points[1].timestamp, MaxTimestamp(Tail(points)))

-----------------------------------------------------------------------------
(* Waypoints and sequences (page.tsx, DronePoint / DroneSequence) *)

\* A colour string: "#rrggbb" is <<"hex", r, g, b>>, "hsl(h, s%, l%)" is
\* <<"hsl", h, s, l>>.
HexColor(r, g, b) == <<"hex", r, g, b>>
HslColor(h, s, l) == <<"hsl", h, s, l>>

DronePoint(x, y, z, color, timestamp) ==
    [x |-> x, y |-> y, z |-> z, color |-> color, timestamp |-> timestamp]

DroneSequence(id, name, points, duration) ==
    [id |-> id, name |-> name, points |-> points, duration |-> duration]

-----------------------------------------------------------------------------
(* Pattern generators (settings panel) *)

\* Ids are strings in the program and integers here: a digit string
\* Date.now().toString() is the clock reading, a generator's
\* "<pattern>-preview-<time>" is the negative number of the pattern.
\* A generated name "<label> <time of day>" is its label.
PreviewId(pattern) ==
    CASE pattern = "circle" -> -1 [] pattern = "figure8" -> -2
      [] pattern = "spiral" -> -3 [] pattern = "formation" -> -4

\* sin of the first-quadrant angles the generators use, times 1000
SinTable ==
    [d \in {0, 18, 30, 36, 45, 54, 60, 72, 90} |->
        CASE d = 0 -> 0 [] d = 18 -> 309 [] d = 30 -> 500 [] d = 36 -> 588
          [] d = 45 -> 707 [] d = 54 -> 809 [] d = 60 -> 866 [] d = 72 -> 951
          [] d = 90 -> 1000]

\* Math.sin(deg * PI / 180) * 1000
SinMilli(deg) ==
    LET a == deg % 360
    IN  IF a <= 90 THEN SinTable[a]
        ELSE IF a <= 180 THEN SinTable[180 - a]
        ELSE IF a <= 270 THEN 0 - SinTable[a - 180]
        ELSE 0 - SinTable[360 - a]

\* Math.cos(deg * PI / 180) * 1000
CosMilli(deg) == SinMilli(deg + 90)

CirclePoint(i) ==
    DronePoint(CANVAS_CENTER_X * Unit + (CosMilli(i * 30) * 60 * Unit) \div 1000,
               CANVAS_CENTER_Y * Unit + (SinMilli(i * 30) * 60 * Unit) \div 1000,
               15 * Unit,
               HslColor((i * 360) \div 12, 70, 50),
               i * 1000)

generateCirclePattern ==
    LET points == [k \in 1..12 |-> CirclePoint(k - 1)]
    IN  DroneSequence(PreviewId("circle"), "Circle Pattern", points, Len(points) * 1000)

Figure8Point(i) ==
    DronePoint(CANVAS_CENTER_X * Unit + (SinMilli(i * 36) * 70 * Unit) \div 1000,
               CANVAS_CENTER_Y * Unit + (SinMilli(i * 72) * 50 * Unit) \div 1000,
               18 * Unit + (SinMilli(i * 36) * 3 * Unit) \div 1000,
               HslColor(((i * 720) \div 20) % 360, 80, 60),
               i * 800)

generateFigure8Pattern ==
    LET points == [k \in 1..20 |-> Figure8Point(k - 1)]
    IN  DroneSequence(PreviewId("figure8"), "Figure-8 Pattern", points, Len(points) * 800)

SpiralPoint(i) ==
    \* progress = i / 24, angle = progress * 6 PI, radius = progress * 80
    DronePoint(CANVAS_CENTER_X * Unit + (CosMilli(i * 45) * i * ((80 * Unit) \div 24)) \div 1000,
               CANVAS_CENTER_Y * Unit + (SinMilli(i * 45) * i * ((80 * Unit) \div 24)) \div 1000,
               5 * Unit + (i * 25 * Unit) \div 24,
               HslColor(240 - (i * 240) \div 24, 90, 55),
               i * 600)

generateSpiralPattern ==
    LET points == [k \in 1..24 |-> SpiralPoint(k - 1)]
    IN  DroneSequence(PreviewId("spiral"), "Spiral Pattern", points, Len(points) * 600)

\* Offsets (dx, dy) from the canvas centre: diamond, line, V
formations ==
    << << <<0, -30>>, <<30, 0>>, <<0, 30>>, <<-30, 0>> >>,
       << <<-45, 0>>, <<-15, 0>>, <<15, 0>>, <<45, 0>> >>,
       << <<0, -15>>, <<-20, 0>>, <<20, 0>>, <<-35, 15>> >> >>

FormationPoint(k) ==
    LET formationIndex == k \div 4
        posIndex == k % 4
        pos == formations[formationIndex + 1][posIndex + 1]
    IN  DronePoint((CANVAS_CENTER_X + pos[1]) * Unit,
                   (CANVAS_CENTER_Y + pos[2]) * Unit,
                   (20 + formationIndex * 8) * Unit,
                   HslColor((formationIndex * 120 + posIndex * 60) % 360, 75, 50),
                   formationIndex * 4000 + posIndex * 200)

generateFormationPattern ==
    LET points == [k \in 1..Len(formations) * 4 |-> FormationPoint(k - 1)]
    IN  DroneSequence(PreviewId("formation"), "Formation Flying", points, 14000)

Patterns ==
    {generateCirclePattern, generateFigure8Pattern,
     generateSpiralPattern, generateFormationPattern}

\* useState initial values of the settings panel
DefaultFlightSettings ==
    [maxAltitude |-> 50, maxSpeed |-> 10, safetyRadius |-> 50,
     smoothPath |-> TRUE, autoOptimize |-> FALSE, batteryMonitoring |-> TRUE]

DefaultLedSettings ==
    [brightness |-> 80, transitionSpeed |-> 500, strobeMode |-> FALSE]

Abs(a) == IF a >= 0 THEN a ELSE 0 - a

\* Variant: the hue is not wrapped into a pair of sextants.
SecondLargestUnwrapped(chroma, h) == chroma * (60 - Abs(h - 60))

\* x = c * (1 - Math.abs(((h * 6) % 2) - 1)), times 60; h in degrees
SecondLargest(chroma, h) == chroma * (60 - Abs((h % 120) - 60))

\* Math.round(v * 255) of v = numerator / 1200000
Channel(numerator) == (2 * numerator * 255 + 1200000) \div (2 * 1200000)

\* hslToRgb(h, s, l): h in degrees, s and l in percent, computed exactly
hslToRgb(h, s, l) ==
    LET chroma == (100 - Abs(2 * l - 100)) * s      \* c, times 10000
        c == chroma * 120                            \* c, times 1200000
        x == SecondLargest(chroma, h) * 2            \* x, times 1200000
        m == l * 12000 - chroma * 60                 \* m, times 1200000
        rgb == IF 0 <= h /\ h < 60 THEN <<c, x, 0>>
               ELSE IF 60 <= h /\ h < 120 THEN <<x, c, 0>>
               ELSE IF 120 <= h /\ h < 180 THEN <<0, c, x>>
               ELSE IF 180 <= h /\ h < 240 THEN <<0, x, c>>
               ELSE IF 240 <= h /\ h < 300 THEN <<x, 0, c>>
               ELSE IF 300 <= h /\ h < 360 THEN <<c, 0, x>>
               ELSE <<0, 0, 0>>
    IN  [r |-> Channel(rgb[1] + m), g |-> Channel(rgb[2] + m),
         b |-> Channel(rgb[3] + m)]

\* A swatch: the colour and <<>> or <<its conversion>>.
Swatch(h, s, l, rgb) == [h |-> h, s |-> s, l |-> l, rgb |-> rgb]

DefaultSwatch == Swatch(0, 100, 50, <<>>)

\* Variant: waypoints above the maximum altitude setting are left out.
WithSettingsBelowMaxAltitude(sequence, flight, led) ==
    [sequence EXCEPT !.points =
        SelectSeq(@, LAMBDA point : point.z <= flight.maxAltitude * Unit)]

\* The fields a generator gives each point besides position, colour and
\* timestamp: rgb, brightness (in 1/24000), speed (in 1/48) and
\* transitionDuration.  The spiral scales brightness by 0.7 + 0.3 i / 24
\* and speed by 0.5 + 0.5 i / 24.
WithSettings(sequence, flight, led) ==
    LET spiral == sequence.id = PreviewId("spiral")
    IN  [sequence EXCEPT !.points =
            [k \in 1..Len(@) |->
                [x |-> @[k].x, y |-> @[k].y, z |-> @[k].z,
                 color |-> @[k].color,
                 rgb |-> hslToRgb(@[k].color[2], @[k].color[3], @[k].color[4]),
                 brightness |-> led.brightness *
                                  (IF spiral THEN 168 + 3 * (k - 1) ELSE 240),
                 timestamp |-> @[k].timestamp,
                 speed |-> flight.maxSpeed * (IF spiral THEN 24 + (k - 1) ELSE 48),
                 transitionDuration |-> led.transitionSpeed]]]

-----------------------------------------------------------------------------
(* The component state during one event.  A record st holds the state     *)
(* slices of both components; sequence objects carry an identity token    *)
(* obj, the collection array the token arr; fresh is the next unused one. *)

WithObj(seq, token) ==
    [id |-> seq.id, name |-> seq.name, points |-> seq.points,
     duration |-> seq.duration, obj |-> token]

WithoutObj(seq) == DroneSequence(seq.id, seq.name, seq.points, seq.duration)

\* localStorage values: no item, text JSON.parse rejects, JSON that is not
\* an array, or a serialized array of sequences
NoItem == [kind |-> "absent", list |-> <<>>]
Unparseable == [kind |-> "unparseable", list |-> <<>>]
NotAnArray == [kind |-> "nonlist", list |-> <<>>]
\* JSON.stringify(sequences)
Stringify(seqs) ==
    [kind |-> "list", list |-> [k \in 1..Len(seqs) |-> WithoutObj(seqs[k])]]

\* sequences.find((seq) => seq.id === id): <<>> when undefined
Find(seqs, id) ==
    LET hits == SelectSeq(seqs, LAMBDA seq : seq.id = id)
    IN  IF Len(hits) = 0 THEN <<>> ELSE <<hits[1]>>

\* page.tsx: const activeSeq = sequences.find(...)
activeSeq(st) == Find(st.sequences, st.activeSequence)

-----------------------------------------------------------------------------
(* page.tsx handlers *)

addSequence(st, sequence) ==
    [st EXCEPT !.sequences = Append(@, sequence),
               !.arr = st.fresh,
               !.fresh = @ + 1,
               !.activeSequence = IF st.activeSequence = NULL THEN sequence.id ELSE @,
               !.previewSequence = <<>>]

\* Variant: the map forgets to compare ids.
updateSequenceEvery(st, id, updates) ==
    [st EXCEPT !.sequences = [k \in 1..Len(@) |-> updates],
               !.arr = st.fresh,
               !.fresh = @ + 1,
               !.previewSequence = <<>>]

updateSequence(st, id, updates) ==
    [st EXCEPT !.sequences =
                   [k \in 1..Len(@) |-> IF @[k].id = id THEN updates ELSE @[k]],
               !.arr = st.fresh,
               !.fresh = @ + 1,
               !.previewSequence = <<>>]

\* Variant: the last remaining sequence is chosen.
LastRemaining(remainingSequences) ==
    IF Len(remainingSequences) > 0
    THEN remainingSequences[Len(remainingSequences)].id ELSE NULL

\* remainingSequences[0].id, or null
FirstRemaining(remainingSequences) ==
    IF Len(remainingSequences) > 0 THEN remainingSequences[1].id ELSE NULL

\* Variant: the active pointer is moved whichever sequence is deleted.
deleteSequenceRepoints(st, id) ==
    LET remainingSequences == SelectSeq(st.sequences, LAMBDA seq : seq.id # id)
    IN  [st EXCEPT !.sequences = remainingSequences,
                   !.arr = st.fresh,
                   !.fresh = @ + 1,
                   !.activeSequence = FirstRemaining(remainingSequences)]

deleteSequence(st, id) ==
    LET remainingSequences == SelectSeq(st.sequences, LAMBDA seq : seq.id # id)
    IN  [st EXCEPT !.sequences = remainingSequences,
                   !.arr = st.fresh,
                   !.fresh = @ + 1,
                   !.activeSequence =
                       IF st.activeSequence = id
                       THEN FirstRemaining(remainingSequences) ELSE @]

\* Variant: the generated sequence is also written to the collection.
handlePreviewSequenceCommits(st, sequence) ==
    [st EXCEPT !.previewSequence = <<WithObj(sequence, st.fresh)>>,
               !.sequences = Append(@, WithObj(sequence, st.fresh)),
               !.arr = st.fresh,
               !.fresh = @ + 1]

handlePreviewSequence(st, sequence) ==
    [st EXCEPT !.previewSequence = <<WithObj(sequence, st.fresh)>>,
               !.fresh = @ + 1]

clearPreview(st) == [st EXCEPT !.previewSequence = <<>>]

\* onSequenceSelect={setActiveSequence}
selectSequence(st, id) == [st EXCEPT !.activeSequence = id]

-----------------------------------------------------------------------------
(* drawing-canvas.tsx handlers.  sequence is the prop: activeSeq of the   *)
(* render the handler closes over.                                        *)

\* onSequenceUpdate={(updates) => activeSequence && updateSequence(...)}
onSequenceUpdate(st, updates) ==
    IF st.activeSequence # NULL
    THEN updateSequence(st, st.activeSequence, updates)
    ELSE st

\* Variant: the front view measures the altitude from the centre line and
\* does not clamp it.
NewPointFromCentreLine(x, y, isFrontView, altitude, color, t) ==
    DronePoint(x,
               IF isFrontView THEN (canvasHeight * Unit) \div 2 ELSE y,
               IF isFrontView
               THEN ((canvasHeight * Unit) \div 2 - y) \div PixelsPerMeter
               ELSE altitude * Unit,
               color,
               t)

\* The point a click at canvas position (x, y) creates at clock reading t.
NewPoint(x, y, isFrontView, altitude, color, t) ==
    DronePoint(x,
               IF isFrontView THEN (canvasHeight * Unit) \div 2 ELSE y,
               IF isFrontView
               THEN Max(0, (canvasHeight * Unit - y) \div PixelsPerMeter)
               ELSE altitude * Unit,
               color,
               t)

\* Variant: the new point is put in front of the draft.
handleCanvasClickPrepends(st, newPoint) ==
    LET cleared == IF st.previewSequence # <<>> THEN clearPreview(st) ELSE st
    IN  [cleared EXCEPT !.unsavedPoints = <<newPoint>> \o @,
                        !.hasUnsavedChanges = TRUE]

handleCanvasClick(st, newPoint) ==
    LET cleared == IF st.previewSequence # <<>> THEN clearPreview(st) ELSE st
    IN  [cleared EXCEPT !.unsavedPoints = Append(@, newPoint),
                        !.hasUnsavedChanges = TRUE]

\* Variant: Clear also resets the draft name.
clearCanvasResetsName(st) ==
    clearPreview([st EXCEPT !.unsavedPoints = <<>>,
                            !.sequenceName = DefaultName,
                            !.hasUnsavedChanges = FALSE])

clearCanvas(st) ==
    clearPreview([st EXCEPT !.unsavedPoints = <<>>,
                            !.hasUnsavedChanges = FALSE])

\* Variant: the first timestamp is taken instead of the largest.
SavedDurationOfFirst(points) ==
    IF Len(points) > 0 THEN points[1].timestamp + SaveTail ELSE 0

\* Variant: the generators' convention, a fixed interval per point.
SavedDurationByCount(points) == Len(points) * SaveTail

\* duration: unsavedPoints.length > 0 ? Math.max(...timestamps) + 1000 : 0
SavedDuration(points) ==
    IF Len(points) > 0 THEN MaxTimestamp(points) + SaveTail ELSE 0

\* Variant: the early return on an empty draft is missing.
saveSequenceUnguarded(st, t) ==
    LET sequence == activeSeq(st)
        newSequence ==
            WithObj(DroneSequence(IF sequence # <<>> THEN sequence[1].id ELSE t,
                                  st.sequenceName,
                                  st.unsavedPoints,
                                  SavedDuration(st.unsavedPoints)),
                    st.fresh)
        bumped == [st EXCEPT !.fresh = @ + 1]
        committed == IF sequence # <<>>
                     THEN onSequenceUpdate(bumped, newSequence)
                     ELSE addSequence(bumped, newSequence)
    IN  clearPreview([committed EXCEPT !.hasUnsavedChanges = FALSE])

saveSequence(st, t) ==
    LET sequence == activeSeq(st)
        newSequence ==
            WithObj(DroneSequence(IF sequence # <<>> THEN sequence[1].id ELSE t,
                                  st.sequenceName,
                                  st.unsavedPoints,
                                  SavedDuration(st.unsavedPoints)),
                    st.fresh)
        bumped == [st EXCEPT !.fresh = @ + 1]
        committed == IF sequence # <<>>
                     THEN onSequenceUpdate(bumped, newSequence)
                     ELSE addSequence(bumped, newSequence)
    IN  IF Len(st.unsavedPoints) = 0
        THEN st
        ELSE clearPreview([committed EXCEPT !.hasUnsavedChanges = FALSE])

\* Variant: New leaves the preview loaded.
createNewSequenceKeepsPreview(st) ==
    [st EXCEPT !.unsavedPoints = <<>>,
               !.sequenceName = DefaultName,
               !.hasUnsavedChanges = FALSE]

createNewSequence(st) ==
    clearPreview([st EXCEPT !.unsavedPoints = <<>>,
                            !.sequenceName = DefaultName,
                            !.hasUnsavedChanges = FALSE])

handleSequenceNameChange(st, name) ==
    LET sequence == activeSeq(st)
    IN  [st EXCEPT !.sequenceName = name,
                   !.hasUnsavedChanges =
                       IF sequence # <<>> /\ name # sequence[1].name THEN TRUE ELSE @]

-----------------------------------------------------------------------------
(* Effects *)

\* Variant: the dirty flag survives the reset of the draft.
SequenceEffectKeepsDirty(st, sequence) ==
    IF sequence # <<>>
    THEN [st EXCEPT !.unsavedPoints = sequence[1].points,
                    !.sequenceName = sequence[1].name]
    ELSE [st EXCEPT !.unsavedPoints = <<>>,
                    !.hasUnsavedChanges = FALSE]

\* drawing-canvas.tsx: useEffect(..., [sequence])
SequenceEffect(st, sequence) ==
    IF sequence # <<>>
    THEN [st EXCEPT !.unsavedPoints = sequence[1].points,
                    !.sequenceName = sequence[1].name,
                    !.hasUnsavedChanges = FALSE]
    ELSE [st EXCEPT !.unsavedPoints = <<>>,
                    !.hasUnsavedChanges = FALSE]

\* Variant: the generated points are added to the draft.
PreviewEffectAppends(st, preview) ==
    IF preview # <<>>
    THEN [st EXCEPT !.unsavedPoints = @ \o preview[1].points,
                    !.sequenceName = preview[1].name,
                    !.hasUnsavedChanges = TRUE]
    ELSE st

\* drawing-canvas.tsx: useEffect(..., [previewSequence])
PreviewEffect(st, preview) ==
    IF preview # <<>>
    THEN [st EXCEPT !.unsavedPoints = preview[1].points,
                    !.sequenceName = preview[1].name,
                    !.hasUnsavedChanges = TRUE]
    ELSE st

\* JSON.parse of a stored array: fresh objects, one token each
Parsed(list, token) == [k \in 1..Len(list) |-> WithObj(list[k], token + k)]

\* page.tsx: useEffect(..., [toast, activeSequence]), the localStorage part.
\* rendered is the state of the render whose effect this is; the updates
\* go to st.
LoadEffect(st, rendered) ==
    LET saved == rendered.storage
    IN  CASE saved.kind = "absent" -> st
          [] saved.kind = "unparseable" -> st
          [] saved.kind = "nonlist" -> [st EXCEPT !.failed = TRUE]
          [] saved.kind = "list" ->
                [st EXCEPT !.sequences = Parsed(saved.list, st.fresh),
                           !.arr = st.fresh,
                           !.fresh = @ + Len(saved.list) + 1,
                           !.activeSequence =
                               IF Len(saved.list) > 0 /\ rendered.activeSequence = NULL
                               THEN saved.list[1].id ELSE @]

\* page.tsx: useEffect(..., [sequences])
PersistEffect(st, rendered) ==
    IF Len(rendered.sequences) > 0
    THEN [st EXCEPT !.storage = Stringify(rendered.sequences)]
    ELSE st

-----------------------------------------------------------------------------
(* Render and effect cycle *)

\* The dependency values of a render.
Deps(st) ==
    [activeSequence |-> st.activeSequence,
     sequence |-> activeSeq(st),
     previewSequence |-> st.previewSequence,
     arr |-> st.arr]

\* The effects of the commit that renders st: those whose dependencies
\* differ from the previous render's (all of them on mount), the canvas'
\* before the page's, each component's in declaration order.  Every effect
\* reads the rendered state st; the updates accumulate for the next render.
Commit(st, prev, first) ==
    LET d == Deps(st)
        s1 == IF first \/ d.sequence # prev.sequence
              THEN SequenceEffect(st, d.sequence) ELSE st
        s2 == IF first \/ d.previewSequence # prev.previewSequence
              THEN PreviewEffect(s1, d.previewSequence) ELSE s1
        s3 == IF first \/ d.activeSequence # prev.activeSequence
              THEN LoadEffect(s2, st) ELSE s2
        s4 == IF first \/ d.arr # prev.arr
              THEN PersistEffect(s3, st) ELSE s3
    IN  s4

RECURSIVE Settle(_, _, _, _)
\* Render, run effects, render again ... until a render changes no
\* dependency (or throws).
Settle(st, prev, first, fuel) ==
    IF st.failed \/ fuel = 0 \/ (~first /\ Deps(st) = prev)
    THEN st
    ELSE Settle(Commit(st, prev, first), Deps(st), FALSE, fuel - 1)

\* The state both components hold between events.
Snapshot ==
    [sequences |-> [k \in 1..Len(sequences) |-> WithObj(sequences[k], k)],
     activeSequence |-> activeSequence,
     previewSequence |->
         [k \in 1..Len(previewSequence) |-> WithObj(previewSequence[k], 0)],
     storage |-> storage,
     unsavedPoints |-> unsavedPoints,
     sequenceName |-> sequenceName,
     hasUnsavedChanges |-> hasUnsavedChanges,
     failed |-> appFailed,
     arr |-> 0,
     fresh |-> Len(sequences) + 1]

\* The settled component state r becomes the state between events.
Store(name, id, r) ==
        /\ sequences' = [k \in 1..Len(r.sequences) |-> WithoutObj(r.sequences[k])]
        /\ activeSequence' = r.activeSequence
        /\ previewSequence' =
               [k \in 1..Len(r.previewSequence) |-> WithoutObj(r.previewSequence[k])]
        /\ storage' = r.storage
        /\ unsavedPoints' = r.unsavedPoints
        /\ sequenceName' = r.sequenceName
        /\ hasUnsavedChanges' = r.hasUnsavedChanges
        /\ appFailed' = r.failed
        /\ op' = [name |-> name, id |-> id, active |-> activeSequence]

\* An event whose handler turns the snapshot into st.
Event(name, id, st) ==
    Store(name, id, Settle(st, Deps(Snapshot), FALSE, MaxRounds))

-----------------------------------------------------------------------------
(* Inputs *)

\* Canvas positions (pixels) a click may land on.
ClickPixels == {<<100, 60>>}
\* Positions of the altitude slider (min 1, max 100, step 1).
AltitudeValues == {1, DefaultAltitude, 100}
\* Colours of the colour picker.
DrawingColors == {HexColor(255, 0, 0), HexColor(0, 0, 255)}
\* Texts typed into the name field.
TypedNames == {DefaultName, "Finale"}

\* Sequences an earlier session saved: ids and timestamps are clock
\* readings of that session, durations as saveSequence computes them.
EarlierPoints(k) ==
    IF k = 2
    THEN <<NewPoint(100 * Unit, 60 * Unit, FALSE, DefaultAltitude, HexColor(255, 0, 0), 10000 + 10 * k),
           NewPoint(310 * Unit, 240 * Unit, TRUE, DefaultAltitude, HexColor(0, 0, 255), 10005 + 10 * k)>>
    ELSE <<NewPoint(100 * Unit, 60 * Unit, FALSE, DefaultAltitude, HexColor(255, 0, 0), 10000 + 10 * k)>>

EarlierSequence(k) ==
    DroneSequence(10007 + 10 * k,
                  IF k = 1 THEN DefaultName ELSE "Finale",
                  EarlierPoints(k),
                  SavedDuration(EarlierPoints(k)))

\* What localStorage may hold when the page is opened.
InitialStores ==
    {NoItem, Unparseable, NotAnArray}
    \cup {Stringify([k \in 1..n |-> EarlierSequence(k)]) : n \in 0..MaxStored}

-----------------------------------------------------------------------------
(* Initial state: the useState initial values, before the first render *)

Init ==
    /\ sequences = <<>>
    /\ activeSequence = NULL
    /\ previewSequence = <<>>
    /\ storage \in InitialStores
    /\ currentDrawingColor = HexColor(255, 0, 0)
    /\ unsavedPoints = <<>>
    /\ sequenceName = DefaultName
    /\ hasUnsavedChanges = FALSE
    /\ currentAltitude = DefaultAltitude
    /\ now = ClockBase
    /\ mounted = FALSE
    /\ appFailed = FALSE
    /\ op = [name |-> "init", id |-> NULL, active |-> NULL]
    /\ currentTime = 0
    /\ selectedSequence = NULL
    /\ isPlaying = FALSE
    /\ localTime = 0
    /\ drone = <<>>
    /\ path = <<>>
    /\ flightSettings = DefaultFlightSettings
    /\ ledSettings = DefaultLedSettings
    /\ swatch = DefaultSwatch

Running == mounted /\ ~appFailed

\* Events are user gestures: each happens a clock tick after the last.
Tick ==
    /\ now < ClockBase + MaxTicks
    /\ now' = now + 1

\* The same in the studio.
StudioTick ==
    /\ now < ClockBase + MaxStudioEvents
    /\ now' = now + 1

-----------------------------------------------------------------------------
(* Events *)

\* First render: every effect runs.
Mount ==
    /\ ~mounted
    /\ mounted' = TRUE
    /\ Store("mount", NULL, Settle(Snapshot, Deps(Snapshot), TRUE, MaxRounds))
    /\ UNCHANGED <<currentDrawingColor, currentAltitude, now>>
    /\ UNCHANGED <<sceneVars, panelVars>>

\* Click on the bird's eye (isFrontView = FALSE) or front canvas.
Click ==
    /\ Running
    /\ Tick
    /\ \E pixel \in ClickPixels, isFrontView \in BOOLEAN :
            Event("click", NULL,
                  handleCanvasClick(Snapshot,
                      NewPoint(pixel[1] * Unit, pixel[2] * Unit, isFrontView,
                               currentAltitude, currentDrawingColor, now')))
    /\ UNCHANGED <<currentDrawingColor, currentAltitude, mounted>>
    /\ UNCHANGED <<sceneVars, panelVars>>

Clear ==
    /\ Running
    /\ Tick
    /\ Event("clear", NULL, clearCanvas(Snapshot))
    /\ UNCHANGED <<currentDrawingColor, currentAltitude, mounted>>
    /\ UNCHANGED <<sceneVars, panelVars>>

New ==
    /\ Running
    /\ Tick
    /\ Event("new", NULL, createNewSequence(Snapshot))
    /\ UNCHANGED <<currentDrawingColor, currentAltitude, mounted>>
    /\ UNCHANGED <<sceneVars, panelVars>>

Rename ==
    /\ Running
    /\ Tick
    /\ \E name \in TypedNames :
            /\ name # sequenceName
            /\ Event("rename", NULL, handleSequenceNameChange(Snapshot, name))
    /\ UNCHANGED <<currentDrawingColor, currentAltitude, mounted>>
    /\ UNCHANGED <<sceneVars, panelVars>>

\* Save button.
Save ==
    /\ Running
    /\ Tick
    /\ Event("save", NULL, saveSequence(Snapshot, now'))
    /\ UNCHANGED <<currentDrawingColor, currentAltitude, mounted>>
    /\ UNCHANGED <<sceneVars, panelVars>>

\* A quick-action button of the settings panel.
LoadPattern ==
    /\ Running
    /\ Tick
    /\ \E pattern \in Patterns :
            Event("pattern", pattern.id, handlePreviewSequence(Snapshot, pattern))
    /\ UNCHANGED <<currentDrawingColor, currentAltitude, mounted>>
    /\ UNCHANGED <<sceneVars, panelVars>>

\* Timeline: choose one of the listed sequences.
Select ==
    /\ Running
    /\ Tick
    /\ \E k \in 1..Len(sequences) :
            Event("select", sequences[k].id, selectSequence(Snapshot, sequences[k].id))
    /\ UNCHANGED <<currentDrawingColor, currentAltitude, mounted>>
    /\ UNCHANGED <<sceneVars, panelVars>>

\* Timeline: delete one of the listed sequences.
Delete ==
    /\ Running
    /\ Tick
    /\ \E k \in 1..Len(sequences) :
            Event("delete", sequences[k].id, deleteSequence(Snapshot, sequences[k].id))
    /\ UNCHANGED <<currentDrawingColor, currentAltitude, mounted>>
    /\ UNCHANGED <<sceneVars, panelVars>>

\* Altitude slider.
SetAltitude ==
    /\ Running
    /\ \E a \in AltitudeValues :
            /\ a # currentAltitude
            /\ currentAltitude' = a
    /\ StudioTick
    /\ op' = [name |-> "altitude", id |-> NULL, active |-> activeSequence]
    /\ UNCHANGED <<sequences, activeSequence, previewSequence, storage,
                   currentDrawingColor, unsavedPoints, sequenceName,
                   hasUnsavedChanges, mounted, appFailed>>
    /\ UNCHANGED <<sceneVars, panelVars>>

\* handleColorChange
ColorChange ==
    /\ Running
    /\ \E c \in DrawingColors :
            /\ c # currentDrawingColor
            /\ currentDrawingColor' = c
    /\ StudioTick
    /\ op' = [name |-> "color", id |-> NULL, active |-> activeSequence]
    /\ UNCHANGED <<sequences, activeSequence, previewSequence, storage,
                   currentAltitude, unsavedPoints, sequenceName,
                   hasUnsavedChanges, mounted, appFailed>>
    /\ UNCHANGED <<sceneVars, panelVars>>

Next ==
    \/ Mount
    \/ Click
    \/ Clear
    \/ New
    \/ Rename
    \/ Save
    \/ LoadPattern
    \/ Select
    \/ Delete

Spec == Init /\ [][Next]_vars

\* The page opened on an empty store: no item, or an empty collection.
FreshStores == {NoItem, Stringify(<<>>)}

FreshInit ==
    /\ Init
    /\ storage \in FreshStores

FreshSpec == FreshInit /\ [][Next]_vars

-----------------------------------------------------------------------------
(* Flight preview (FlightPath, Scene, FlightPreview) *)

\* Bounds of the preview model
\* Full periods of a shown sequence the timeline position may lie beyond.
MaxPeriods == 3
\* Largest reading of the playback clock while no route is displayed.
MaxLocalTime == 200

\* Program constants of the preview
WorldScale == 20
HeightScale == 10
HoverLift == 2
DefaultPoseHeight == 3
TimerPeriod == 50

\* One world unit; a multiple of WorldScale * Unit and of HeightScale * Unit.
WorldUnit == WorldScale * Unit

\* The number NaN, which no clock reading and no coordinate equals.
NaN == -1

RECURSIVE GCD(_, _)
GCD(a, b) == IF b = 0 THEN a ELSE GCD(b, a % b)

\* A point of world space: (x / d, y / d, z / d) world units; d = 0 stands
\* for the TypeError of reading a coordinate of undefined, d = NaN for a
\* point with an axis that is not a finite number.
Position(x, y, z, d) == [x |-> x, y |-> y, z |-> z, d |-> d]

Thrown == Position(0, 0, 0, 0)

NotFinite == Position(0, 0, 0, NaN)

\* The waypoint has a coordinate that is not a number.
Corrupt(p) == p.x = NaN \/ p.y = NaN \/ p.z = NaN

\* FlightPath: [(p.x - 200) / 20, p.z / 10, (p.y - 150) / 20]
WorldPoint(p) ==
    IF Corrupt(p) THEN NotFinite ELSE
    Position((p.x - 200 * Unit) * (WorldUnit \div (WorldScale * Unit)),
             p.z * (WorldUnit \div (HeightScale * Unit)),
             (p.y - 150 * Unit) * (WorldUnit \div (WorldScale * Unit)),
             1)

\* Scene: [(point.x - 200) / 20, point.z / 10 + 2, (point.y - 150) / 20]
DronePosition(point) ==
    IF Corrupt(point) THEN NotFinite ELSE
    Position((point.x - 200 * Unit) * (WorldUnit \div (WorldScale * Unit)),
             point.z * (WorldUnit \div (HeightScale * Unit)) + HoverLift * WorldUnit,
             (point.y - 150 * Unit) * (WorldUnit \div (WorldScale * Unit)),
             1)

\* THREE.MathUtils.lerp(a, b, ln / ld), times ld
Lerp(a, b, ln, ld) == a * ld + (b - a) * ln

\* Variant: the fractional index is taken over the number of points.
SegmentProgressOverCount(elapsed, totalPoints) == elapsed * totalPoints

\* segmentProgress = progress * (totalPoints - 1), times totalDuration;
\* elapsed is currentTime % totalDuration
SegmentProgress(elapsed, totalPoints) == elapsed * (totalPoints - 1)

\* Variant: only a missing sequence counts as nothing to show.
NothingToShowIfMissing(displaySequence) == displaySequence = <<>>

\* !displaySequence || !displaySequence.points.length
NothingToShow(displaySequence) ==
    displaySequence = <<>> \/ Len(displaySequence[1].points) = 0

\* Scene.getCurrentPosition
getCurrentPosition(displaySequence, time) ==
    IF NothingToShow(displaySequence)
    THEN Position(0, DefaultPoseHeight * WorldUnit, 0, 1)
    ELSE
    LET points == displaySequence[1].points
        totalDuration == displaySequence[1].duration
        totalPoints == Len(points)
    IN  IF totalPoints = 1 THEN DronePosition(points[1])
        ELSE IF time = NaN \/ totalDuration = 0
        \* progress is NaN: points[NaN] is undefined, currentPoint falls back
        \* to points[0], nextPoint has no fallback left
        THEN Thrown
        ELSE
        LET segmentProgress == SegmentProgress(time % totalDuration, totalPoints)
            segmentIndex == segmentProgress \div totalDuration
            rest == segmentProgress - segmentIndex * totalDuration
            g == GCD(rest, totalDuration)
            ln == rest \div g
            ld == totalDuration \div g
            currentIndex == IF segmentIndex + 1 <= totalPoints
                            THEN segmentIndex + 1 ELSE 1
            nextIndex == IF segmentIndex + 2 <= totalPoints
                         THEN segmentIndex + 2 ELSE segmentIndex + 1
        IN  IF nextIndex > totalPoints THEN Thrown
            ELSE
            LET currentPoint == DronePosition(points[currentIndex])
                nextPoint == DronePosition(points[nextIndex])
            IN  IF currentPoint = NotFinite \/ nextPoint = NotFinite
                THEN NotFinite
                ELSE
                Position(Lerp(currentPoint.x, nextPoint.x, ln, ld),
                         Lerp(currentPoint.y, nextPoint.y, ln, ld),
                         Lerp(currentPoint.z, nextPoint.z, ln, ld),
                         ld)

\* Variant: the colour index is taken over the number of segments.
ColorIndexOfSegment(elapsed, totalPoints, totalDuration) ==
    (elapsed * (totalPoints - 1)) \div totalDuration

\* Math.floor(progress * displaySequence.points.length); elapsed is
\* currentTime % totalDuration
ColorIndex(elapsed, totalPoints, totalDuration) ==
    (elapsed * totalPoints) \div totalDuration

\* Scene.getCurrentColor
getCurrentColor(displaySequence, time) ==
    IF NothingToShow(displaySequence)
    THEN HexColor(255, 0, 0)
    ELSE
    LET points == displaySequence[1].points
        totalDuration == displaySequence[1].duration
    IN  IF time = NaN \/ totalDuration = 0
        THEN points[1].color
        ELSE
        LET pointIndex == ColorIndex(time % totalDuration, Len(points), totalDuration)
        IN  IF pointIndex + 1 <= Len(points)
            THEN points[pointIndex + 1].color ELSE points[1].color

\* selectedSequence ? find(selectedSequence) : find(activeSequence)
DisplaySequence(seqs, selected, active) ==
    IF selected # NULL THEN Find(seqs, selected) ELSE Find(seqs, active)

\* const effectiveTime = isPlaying ? localTime : currentTime
EffectiveTime(playing, lt, ct) == IF playing THEN lt ELSE ct

\* Scene: the DroneModel element, rendered for a sequence with points
RenderDrone(displaySequence, time, playing) ==
    IF displaySequence # <<>> /\ Len(displaySequence[1].points) > 0
    THEN <<[position |-> getCurrentPosition(displaySequence, time),
            color |-> getCurrentColor(displaySequence, time),
            isActive |-> playing]>>
    ELSE <<>>

\* Number.isFinite on each axis of a display point
isFinitePoint(p) == p # NotFinite

\* FlightPath: <<>> (null) or <<the line and the waypoint markers>>
FlightPath(sequence) ==
    LET rawPts == [k \in 1..Len(sequence.points) |-> WorldPoint(sequence.points[k])]
        points == SelectSeq(rawPts, isFinitePoint)
    IN  IF Len(points) < 2 THEN <<>>
        ELSE <<[line |-> points,
                markers |-> [idx \in 1..Len(points) |->
                                [position |-> points[idx],
                                 color |-> sequence.points[idx].color,
                                 label |-> idx]]]>>

\* Scene: {displaySequence && <FlightPath sequence={displaySequence} />}
RenderPath(shown) == IF shown = <<>> THEN <<>> ELSE FlightPath(shown[1])

displaySequence == DisplaySequence(sequences, selectedSequence, activeSequence)
effectiveTime == EffectiveTime(isPlaying, localTime, currentTime)

\* (prev + 50) % duration, NaN when the duration is 0
NextLocalTime(prev, shown) ==
    IF prev = NaN THEN NaN
    ELSE IF shown = <<>> THEN prev + TimerPeriod
    ELSE IF shown[1].duration = 0 THEN NaN
    ELSE (prev + TimerPeriod) % shown[1].duration

(* Collections the preview is shown: sequences as Save writes them, with  *)
(* timestamps counted from 0.                                             *)
BoundarySequence ==
    LET points ==
            <<NewPoint(100 * Unit, 60 * Unit, FALSE, DefaultAltitude, HexColor(255, 0, 0), 0),
              NewPoint(310 * Unit, 120 * Unit, TRUE, DefaultAltitude, HexColor(0, 0, 255), 1000),
              NewPoint(200 * Unit, 90 * Unit, FALSE, 100, HexColor(0, 255, 0), 2000)>>
    IN  DroneSequence(20001, "Boundary", points, SavedDuration(points))

SavedCircle ==
    DroneSequence(20002, generateCirclePattern.name, generateCirclePattern.points,
                  SavedDuration(generateCirclePattern.points))

PairSequence ==
    LET points ==
            <<NewPoint(100 * Unit, 60 * Unit, FALSE, DefaultAltitude, HexColor(255, 0, 0), 0),
              NewPoint(310 * Unit, 120 * Unit, TRUE, DefaultAltitude, HexColor(0, 0, 255), 500)>>
    IN  DroneSequence(20003, "Pair", points, SavedDuration(points))

SingleSequence ==
    LET points ==
            <<NewPoint(100 * Unit, 60 * Unit, FALSE, DefaultAltitude, HexColor(255, 0, 0), 0)>>
    IN  DroneSequence(20004, "Single", points, SavedDuration(points))

NoPointsSequence == DroneSequence(20005, "Empty", <<>>, SavedDuration(<<>>))

\* A stored sequence whose second waypoint has no x: p.x - 200 is NaN.
UnreadableSequence ==
    LET points ==
            <<NewPoint(100 * Unit, 60 * Unit, FALSE, DefaultAltitude, HexColor(255, 0, 0), 0),
              [NewPoint(310 * Unit, 120 * Unit, FALSE, DefaultAltitude,
                        HexColor(0, 0, 255), 400) EXCEPT !.x = NaN],
              NewPoint(200 * Unit, 90 * Unit, FALSE, 100, HexColor(0, 255, 0), 800),
              NewPoint(50 * Unit, 200 * Unit, FALSE, DefaultAltitude,
                       HexColor(255, 255, 255), 1200)>>
    IN  DroneSequence(20006, "Unreadable", points, SavedDuration(points))

\* A stored sequence with a single waypoint whose coordinates are all numbers.
MostlyUnreadableSequence ==
    LET points ==
            <<[NewPoint(100 * Unit, 60 * Unit, FALSE, DefaultAltitude,
                        HexColor(255, 0, 0), 0) EXCEPT !.y = NaN],
              NewPoint(310 * Unit, 120 * Unit, FALSE, DefaultAltitude,
                       HexColor(0, 0, 255), 400),
              [NewPoint(200 * Unit, 90 * Unit, FALSE, 100,
                        HexColor(0, 255, 0), 800) EXCEPT !.z = NaN]>>
    IN  DroneSequence(20007, "Mostly unreadable", points, SavedDuration(points))

ShownCollections ==
    {<<>>,
     <<BoundarySequence, SavedCircle>>,
     <<SingleSequence, NoPointsSequence, PairSequence>>,
     <<UnreadableSequence, MostlyUnreadableSequence>>}

\* Timeline positions: whole periods of the listed sequences and points
\* inside a period.
ScrubTimes(seqs) ==
    {0, 750, 1500, 2250}
    \cup {k * seqs[i].duration : k \in 1..MaxPeriods, i \in 1..Len(seqs)}

PreviewInit ==
    /\ sequences \in ShownCollections
    /\ activeSequence \in {NULL} \cup {sequences[k].id : k \in 1..Len(sequences)}
    /\ previewSequence = <<>>
    /\ storage = IF Len(sequences) > 0 THEN Stringify(sequences) ELSE NoItem
    /\ currentDrawingColor = HexColor(255, 0, 0)
    /\ unsavedPoints = <<>>
    /\ sequenceName = DefaultName
    /\ hasUnsavedChanges = FALSE
    /\ currentAltitude = DefaultAltitude
    /\ now = ClockBase
    /\ mounted = TRUE
    /\ appFailed = FALSE
    /\ op = [name |-> "init", id |-> NULL, active |-> activeSequence]
    /\ currentTime \in ScrubTimes(sequences)
    /\ selectedSequence = NULL
    /\ isPlaying = FALSE
    /\ localTime = 0
    /\ drone = RenderDrone(DisplaySequence(sequences, NULL, activeSequence),
                           currentTime, FALSE)
    /\ path = RenderPath(DisplaySequence(sequences, NULL, activeSequence))
    /\ flightSettings = DefaultFlightSettings
    /\ ledSettings = DefaultLedSettings
    /\ swatch = DefaultSwatch

\* The render of the scene that follows a state change of the preview.
RenderScene(name, id) ==
    /\ UNCHANGED <<sequences, activeSequence, previewSequence, storage,
                   currentDrawingColor, unsavedPoints, sequenceName,
                   hasUnsavedChanges, currentAltitude, now, mounted, currentTime>>
    /\ UNCHANGED panelVars
    /\ drone' = RenderDrone(displaySequence', effectiveTime', isPlaying')
    /\ path' = RenderPath(displaySequence')
    /\ appFailed' = (drone' # <<>> /\ drone'[1].position = Thrown)
    /\ op' = [name |-> name, id |-> id, active |-> activeSequence]

handlePlayToggle ==
    /\ Running
    /\ isPlaying' = ~isPlaying
    /\ localTime' = IF ~isPlaying THEN currentTime ELSE localTime
    /\ UNCHANGED selectedSequence
    /\ RenderScene("play", NULL)

handleReset ==
    /\ Running
    /\ localTime' = 0
    /\ isPlaying' = FALSE
    /\ UNCHANGED selectedSequence
    /\ RenderScene("reset", NULL)

\* The setInterval callback of the playback effect.
IntervalTick ==
    /\ Running
    /\ isPlaying
    /\ displaySequence = <<>> => localTime < MaxLocalTime
    /\ localTime' = NextLocalTime(localTime, displaySequence)
    /\ UNCHANGED <<selectedSequence, isPlaying>>
    /\ RenderScene("tick", NULL)

\* The route select: onValueChange={setSelectedSequence}
SelectRoute ==
    /\ Running
    /\ UNCHANGED <<isPlaying, localTime>>
    /\ \E k \in 1..Len(sequences) :
            /\ selectedSequence' = sequences[k].id
            /\ RenderScene("route", sequences[k].id)

PreviewNext ==
    \/ handlePlayToggle
    \/ handleReset
    \/ IntervalTick
    \/ SelectRoute

PreviewSpec == PreviewInit /\ [][PreviewNext]_vars

-----------------------------------------------------------------------------
(* Studio: the design tab with its settings panel *)

\* Canvas positions (pixels) a click may land on: the corners of the
\* canvas and a position inside it.
StudioPixels == {<<0, 0>>, <<400, 300>>, <<137, 212>>}

\* Slider positions of the settings panel: the initial one and an end of
\* the slider.
MaxAltitudeValues == {50, 10}
MaxSpeedValues == {10, 25}
BrightnessValues == {80, 10}
TransitionSpeedValues == {500, 2000}

\* Variant: the front view does not flip the altitude axis.
WaypointPixelUnflipped(point, isFrontView) ==
    <<point.x, IF isFrontView THEN point.z * 3 ELSE point.y>>

\* drawWaypoints: the canvas position a waypoint is drawn at
WaypointPixel(point, isFrontView) ==
    <<point.x, IF isFrontView THEN canvasHeight * Unit - point.z * 3 ELSE point.y>>

\* The page after it mounted with nothing stored.
StudioInit ==
    /\ sequences = <<>>
    /\ activeSequence = NULL
    /\ previewSequence = <<>>
    /\ storage = NoItem
    /\ currentDrawingColor = HexColor(255, 0, 0)
    /\ unsavedPoints = <<>>
    /\ sequenceName = DefaultName
    /\ hasUnsavedChanges = FALSE
    /\ currentAltitude = DefaultAltitude
    /\ now = ClockBase
    /\ mounted = TRUE
    /\ appFailed = FALSE
    /\ op = [name |-> "init", id |-> NULL, active |-> NULL]
    /\ currentTime = 0
    /\ selectedSequence = NULL
    /\ isPlaying = FALSE
    /\ localTime = 0
    /\ drone = <<>>
    /\ path = <<>>
    /\ flightSettings = DefaultFlightSettings
    /\ ledSettings = DefaultLedSettings
    /\ swatch = DefaultSwatch

\* Click anywhere on the bird's eye or the front canvas; the event keeps
\* the canvas position and the plane.
CanvasClick ==
    /\ Running
    /\ StudioTick
    /\ \E pixel \in StudioPixels, isFrontView \in BOOLEAN :
            Event("click",
                  [x |-> pixel[1], y |-> pixel[2], isFrontView |-> isFrontView],
                  handleCanvasClick(Snapshot,
                      NewPoint(pixel[1] * Unit, pixel[2] * Unit, isFrontView,
                               currentAltitude, currentDrawingColor, now')))
    /\ UNCHANGED <<currentDrawingColor, currentAltitude, mounted>>
    /\ UNCHANGED <<sceneVars, panelVars>>

\* A quick-action button: the generator reads the settings of the panel.
Generate ==
    /\ Running
    /\ StudioTick
    /\ \E pattern \in Patterns :
            Event("pattern", pattern.id,
                  handlePreviewSequence(Snapshot,
                      WithSettings(pattern, flightSettings, ledSettings)))
    /\ UNCHANGED <<currentDrawingColor, currentAltitude, mounted>>
    /\ UNCHANGED <<sceneVars, panelVars>>

\* Save button.
StudioSave ==
    /\ Running
    /\ StudioTick
    /\ Event("save", NULL, saveSequence(Snapshot, now'))
    /\ UNCHANGED <<currentDrawingColor, currentAltitude, mounted>>
    /\ UNCHANGED <<sceneVars, panelVars>>

\* A settings event leaves the page and the canvas alone.
PanelEvent(name) ==
    /\ Running
    /\ StudioTick
    /\ op' = [name |-> name, id |-> NULL, active |-> activeSequence]
    /\ UNCHANGED <<sequences, activeSequence, previewSequence, storage,
                   currentDrawingColor, unsavedPoints, sequenceName,
                   hasUnsavedChanges, currentAltitude, mounted, appFailed, swatch>>
    /\ UNCHANGED sceneVars

\* Max altitude and max speed sliders.
SetFlightSettings ==
    /\ \/ \E v \in MaxAltitudeValues :
            /\ v # flightSettings.maxAltitude
            /\ flightSettings' = [flightSettings EXCEPT !.maxAltitude = v]
       \/ \E v \in MaxSpeedValues :
            /\ v # flightSettings.maxSpeed
            /\ flightSettings' = [flightSettings EXCEPT !.maxSpeed = v]
    /\ UNCHANGED ledSettings
    /\ PanelEvent("flight")

\* Brightness and transition speed sliders.
SetLedSettings ==
    /\ \/ \E v \in BrightnessValues :
            /\ v # ledSettings.brightness
            /\ ledSettings' = [ledSettings EXCEPT !.brightness = v]
       \/ \E v \in TransitionSpeedValues :
            /\ v # ledSettings.transitionSpeed
            /\ ledSettings' = [ledSettings EXCEPT !.transitionSpeed = v]
    /\ UNCHANGED flightSettings
    /\ PanelEvent("led")

StudioNext ==
    \/ CanvasClick
    \/ SetAltitude
    \/ ColorChange
    \/ Generate
    \/ StudioSave
    \/ SetFlightSettings
    \/ SetLedSettings

StudioSpec == StudioInit /\ [][StudioNext]_vars

-----------------------------------------------------------------------------
(* Colour conversion *)

\* Colours handed to hslToRgb.
SwatchHues == {30 * k : k \in 0..12}
SwatchSaturations == {0, 50, 70, 100}
SwatchLightnesses == {0, 25, 50, 75, 100}

ColorInit ==
    /\ sequences = <<>>
    /\ activeSequence = NULL
    /\ previewSequence = <<>>
    /\ storage = NoItem
    /\ currentDrawingColor = HexColor(255, 0, 0)
    /\ unsavedPoints = <<>>
    /\ sequenceName = DefaultName
    /\ hasUnsavedChanges = FALSE
    /\ currentAltitude = DefaultAltitude
    /\ now = ClockBase
    /\ mounted = TRUE
    /\ appFailed = FALSE
    /\ op = [name |-> "init", id |-> NULL, active |-> NULL]
    /\ currentTime = 0
    /\ selectedSequence = NULL
    /\ isPlaying = FALSE
    /\ localTime = 0
    /\ drone = <<>>
    /\ path = <<>>
    /\ flightSettings = DefaultFlightSettings
    /\ ledSettings = DefaultLedSettings
    /\ swatch \in {Swatch(h, s, l, <<>>) :
                       h \in SwatchHues, s \in SwatchSaturations,
                       l \in SwatchLightnesses}

\* The colour is converted.
Convert ==
    /\ swatch.rgb = <<>>
    /\ swatch' = [swatch EXCEPT !.rgb = <<hslToRgb(swatch.h, swatch.s, swatch.l)>>]
    /\ op' = [name |-> "convert", id |-> NULL, active |-> activeSequence]
    /\ UNCHANGED <<sequences, activeSequence, previewSequence, storage,
                   currentDrawingColor, unsavedPoints, sequenceName,
                   hasUnsavedChanges, currentAltitude, now, mounted, appFailed,
                   flightSettings, ledSettings>>
    /\ UNCHANGED sceneVars

ColorNext == Convert

ColorSpec == ColorInit /\ [][ColorNext]_vars

-----------------------------------------------------------------------------
(* Properties *)

\* The sequence with the given id, as <<>> or <<sequence>>.
Committed(id) == Find(sequences, id)

\* What saving the draft writes into a sequence with the given id.
DraftAs(id) ==
    DroneSequence(id, sequenceName, unsavedPoints, MaxTimestamp(unsavedPoints) + SaveTail)

\* C1: a Save with an empty draft changes nothing: draft points, draft
\* name, dirty flag, preview, collection and active pointer stay as they
\* were.
C1_EmptySaveIsNoOp ==
    [][(op'.name = "save" /\ Len(unsavedPoints) = 0) =>
          /\ unsavedPoints' = unsavedPoints
          /\ sequenceName' = sequenceName
          /\ hasUnsavedChanges' = hasUnsavedChanges
          /\ previewSequence' = previewSequence
          /\ sequences' = sequences
          /\ activeSequence' = activeSequence]_vars

\* A rejected save happened while the draft was dirty (Save button enabled)
\* and there was a collection to damage.
C1_Witness ==
    /\ op.name = "save"
    /\ Len(unsavedPoints) = 0
    /\ hasUnsavedChanges
    /\ Len(sequences) > 0

\* C2: a Save of a non-empty draft over the active sequence replaces that
\* sequence's points, name and duration at its position, keeps its id,
\* keeps the collection's length and leaves every other sequence alone.
C2_SaveReplacesInPlace ==
    [][(op'.name = "save" /\ Len(unsavedPoints) > 0 /\ Committed(activeSequence) # <<>>) =>
          /\ Len(sequences') = Len(sequences)
          /\ \A k \in 1..Len(sequences) :
                sequences'[k] = IF sequences[k].id = activeSequence
                                THEN DraftAs(activeSequence)
                                ELSE sequences[k]]_vars

\* A generated pattern was saved over the active one of several sequences.
C2_Witness ==
    /\ op.name = "save"
    /\ op.active = activeSequence
    /\ Len(sequences) >= 2
    /\ Committed(activeSequence) # <<>>
    /\ Committed(activeSequence)[1].points = generateSpiralPattern.points
    /\ sequences[2].id = activeSequence

C5_DeletedIsGone ==
    [][(op'.name = "delete") => Find(sequences', op'.id) = <<>>]_vars

\* C6: deleting the active sequence while others exist makes the first
\* remaining sequence active, never the deleted one.
C6_DeleteRepointsToFirstRemaining ==
    [][(op'.name = "delete" /\ op'.id = activeSequence /\ Len(sequences) >= 2) =>
          /\ activeSequence' =
                SelectSeq(sequences, LAMBDA seq : seq.id # op'.id)[1].id
          /\ activeSequence' # op'.id]_vars

\* The middle one of three sequences was active and has been deleted.
C6_Witness ==
    /\ op.name = "delete"
    /\ op.active = op.id
    /\ op.id = EarlierSequence(2).id
    /\ activeSequence = EarlierSequence(1).id
    /\ storage.kind = "list"
    /\ Len(storage.list) >= 2

\* C7: deleting the active sequence when it is the only one leaves no
\* active sequence and an empty collection.
C7_DeleteLastLeavesNone ==
    [][(op'.name = "delete" /\ op'.id = activeSequence /\ Len(sequences) = 1) =>
          /\ activeSequence' = NULL
          /\ sequences' = <<>>]_vars

C9_BadStoreTolerated ==
    (op.name = "mount" /\ storage.kind \in {"unparseable", "nonlist"}) =>
        /\ sequences = <<>>
        /\ activeSequence = NULL
        /\ ~appFailed

\* C10: click, Clear, New, rename, pattern load and select leave the
\* collection as it was.
C10_OnlySaveAndDeleteMutate ==
    [][(op'.name \in {"click", "clear", "new", "rename", "pattern", "select"}) =>
          sequences' = sequences]_vars

\* A pattern is previewed while the collection holds sequences.
C10_Witness ==
    /\ op.name = "pattern"
    /\ previewSequence # <<>>
    /\ unsavedPoints = previewSequence[1].points
    /\ Len(sequences) > 0

C12_ClickDiscardsPreview ==
    [][(op'.name = "click" /\ previewSequence # <<>>) =>
          /\ previewSequence' = <<>>
          /\ unsavedPoints' #
                Append(previewSequence[1].points,
                       unsavedPoints'[Len(unsavedPoints')])]_vars

\* C13: after a pattern load the draft points are the generator's points in
\* its order, the draft name is the generator's label, the preview is that
\* generated sequence and the draft is dirty.
C13_PatternReplacesDraft ==
    (op.name = "pattern") =>
        \E pattern \in Patterns :
            /\ pattern.id = op.id
            /\ previewSequence = <<pattern>>
            /\ unsavedPoints = pattern.points
            /\ sequenceName = pattern.name
            /\ hasUnsavedChanges

\* A pattern was loaded over the draft of an active sequence of the
\* collection, whose points are not the generator's.
C13_Witness ==
    /\ op.name = "pattern"
    /\ op.id = generateFormationPattern.id
    /\ Committed(activeSequence) # <<>>
    /\ Len(Committed(activeSequence)[1].points) = 2
    /\ unsavedPoints = generateFormationPattern.points

\* C14: when a selection or a delete changes the active pointer to a
\* sequence of the collection, the draft becomes that sequence's points and
\* name and is clean.
C14_ActiveChangeResetsDraft ==
    [][(/\ op'.name \in {"select", "delete"}
        /\ activeSequence' # activeSequence
        /\ Find(sequences', activeSequence') # <<>>) =>
          /\ unsavedPoints' = Find(sequences', activeSequence')[1].points
          /\ sequenceName' = Find(sequences', activeSequence')[1].name
          /\ ~hasUnsavedChanges']_vars

\* Another sequence than the active one was selected and is now in the
\* draft.
C14_Witness ==
    /\ op.name = "select"
    /\ op.id # op.active
    /\ op.active # NULL
    /\ activeSequence = op.id
    /\ Committed(op.id) # <<>>
    /\ unsavedPoints = Committed(op.id)[1].points
    /\ Len(unsavedPoints) = 2

\* C15: Clear leaves a draft without points, no preview and a clean flag,
\* and keeps the draft name, the active pointer and the collection.
C15_ClearEmptiesDraftOnly ==
    [][(op'.name = "clear") =>
          /\ unsavedPoints' = <<>>
          /\ previewSequence' = <<>>
          /\ ~hasUnsavedChanges'
          /\ sequenceName' = sequenceName
          /\ activeSequence' = activeSequence
          /\ sequences' = sequences]_vars

\* Clear happened with an active sequence whose name is in the draft.
C15_Witness ==
    /\ op.name = "clear"
    /\ Len(unsavedPoints) = 0
    /\ Committed(activeSequence) # <<>>
    /\ sequenceName = "Finale"
    /\ Len(sequences) >= 2

\* C16: New gives the draft points, preview, dirty flag, active pointer and
\* collection Clear would give from the same state, and the default name.
C16_NewIsClearPlusNameReset ==
    [][(op'.name = "new") =>
          LET c == Settle(clearCanvas(Snapshot), Deps(Snapshot), FALSE, MaxRounds)
          IN  /\ unsavedPoints' = c.unsavedPoints
              /\ previewSequence' =
                    [k \in 1..Len(c.previewSequence) |-> WithoutObj(c.previewSequence[k])]
              /\ hasUnsavedChanges' = c.hasUnsavedChanges
              /\ activeSequence' = c.activeSequence
              /\ sequences' = [k \in 1..Len(c.sequences) |-> WithoutObj(c.sequences[k])]
              /\ sequenceName' = DefaultName]_vars

\* New happened while a sequence with another name was active.
C16_Witness ==
    /\ op.name = "new"
    /\ sequenceName = DefaultName
    /\ Committed(activeSequence) # <<>>
    /\ Committed(activeSequence)[1].name = "Finale"
    /\ previewSequence = <<>>

DurationCovers(seq) ==
    Len(seq.points) > 0 =>
        /\ seq.duration > 0
        /\ \A k \in 1..Len(seq.points) : seq.duration >= seq.points[k].timestamp

\* C18: every generated sequence, the loaded preview and every sequence of
\* the collection that has a point has a positive duration that is at
\* least its largest timestamp.
C18_DurationCoversTimestamps ==
    /\ \A pattern \in Patterns : DurationCovers(pattern)
    /\ \A k \in 1..Len(previewSequence) : DurationCovers(previewSequence[k])
    /\ \A k \in 1..Len(sequences) : DurationCovers(sequences[k])

\* A generated pattern has been saved into the collection.
C18_Witness ==
    /\ op.name = "save"
    /\ Committed(activeSequence) # <<>>
    /\ Committed(activeSequence)[1].points = generateFormationPattern.points
    /\ Committed(activeSequence)[1].duration = 8600 + SaveTail

\* Two world points are the same point.
SamePosition(p, q) ==
    /\ p.d # 0
    /\ q.d # 0
    /\ p.x * q.d = q.x * p.d
    /\ p.y * q.d = q.y * p.d
    /\ p.z * q.d = q.z * p.d

\* The point halfway between two world points of denominator 1.
Midpoint(p, q) == Position(p.x + q.x, p.y + q.y, p.z + q.z, 2)

\* The scene shows the drone of a three-point sequence with timestamps
\* 0, 1000, 2000 and duration 3000 at the given time.
BoundaryShownAt(time) ==
    /\ drone # <<>>
    /\ displaySequence # <<>>
    /\ Len(displaySequence[1].points) = 3
    /\ displaySequence[1].points[1].timestamp = 0
    /\ displaySequence[1].points[2].timestamp = 1000
    /\ displaySequence[1].points[3].timestamp = 2000
    /\ displaySequence[1].duration = 3000
    /\ effectiveTime = time

C20_LoopAround ==
    (/\ drone # <<>>
     /\ displaySequence # <<>>
     /\ Len(displaySequence[1].points) >= 2
     /\ displaySequence[1].duration > 0
     /\ effectiveTime # NaN
     /\ effectiveTime % displaySequence[1].duration = 0) =>
        SamePosition(drone[1].position, WorldPoint(displaySequence[1].points[1]))

\* C21: for a shown sequence with exactly one point the drone is, at every
\* time, at that point's world position ((x - 200) / 20, z / 10,
\* (y - 150) / 20), the position the flight path gives that waypoint.
C21_SinglePointAtWorldPosition ==
    (/\ drone # <<>>
     /\ displaySequence # <<>>
     /\ Len(displaySequence[1].points) = 1) =>
        SamePosition(drone[1].position, WorldPoint(displaySequence[1].points[1]))

\* C22: for a missing sequence and for a sequence without points the
\* interpolator gives, at every time, the default pose (0, 3, 0) and the
\* default colour #ff0000; nothing is thrown, whatever the duration.
C22_DefaultPoseWhenNothingToShow ==
    (displaySequence = <<>> \/ Len(displaySequence[1].points) = 0) =>
        /\ SamePosition(getCurrentPosition(displaySequence, effectiveTime),
                        Position(0, 3 * WorldUnit, 0, 1))
        /\ getCurrentColor(displaySequence, effectiveTime) = HexColor(255, 0, 0)
        /\ ~appFailed

\* Playback ticked while a sequence without points, of duration 0, was
\* shown: the clock has become NaN.
C22_Witness ==
    /\ op.name = "tick"
    /\ isPlaying
    /\ displaySequence # <<>>
    /\ Len(displaySequence[1].points) = 0
    /\ displaySequence[1].duration = 0
    /\ effectiveTime = NaN

\* C23: for a shown sequence with N >= 1 points and duration D > 0, at
\* every time t >= 0 the drone has exactly the colour of the waypoint whose
\* index i in 0..N-1 satisfies i <= ((t mod D) / D) * N < i + 1.
C23_ColorOfPrecedingIndex ==
    (/\ drone # <<>>
     /\ displaySequence # <<>>
     /\ displaySequence[1].duration > 0
     /\ effectiveTime # NaN) =>
        LET points == displaySequence[1].points
            D == displaySequence[1].duration
            scaled == (effectiveTime % D) * Len(points)
        IN  \E i \in 0..(Len(points) - 1) :
                /\ i * D <= scaled
                /\ scaled < (i + 1) * D
                /\ drone[1].color = points[i + 1].color

\* Playback shows the last waypoint's colour, which differs from the
\* colour of the waypoint before it.
C23_Witness ==
    /\ op.name = "tick"
    /\ drone # <<>>
    /\ displaySequence # <<>>
    /\ displaySequence[1].duration > 0
    /\ effectiveTime # NaN
    /\ LET points == displaySequence[1].points
       IN  /\ Len(points) >= 3
           /\ drone[1].color = points[Len(points)].color
           /\ points[Len(points)].color # points[Len(points) - 1].color
           /\ points[Len(points)].color # points[1].color

PatternCount(id) ==
    CASE id = PreviewId("circle") -> 12 [] id = PreviewId("figure8") -> 20
      [] id = PreviewId("spiral") -> 24 [] id = PreviewId("formation") -> 12

\* C25: whatever the flight and LED settings are, the circle generator
\* gives exactly 12 waypoints, figure-8 20, spiral 24 and formation 12,
\* and so does the preview a generator has loaded.
C25_GeneratorCardinality ==
    /\ \A pattern \in Patterns :
          Len(WithSettings(pattern, flightSettings, ledSettings).points)
              = PatternCount(pattern.id)
    /\ (op.name = "pattern" /\ previewSequence # <<>>) =>
          Len(previewSequence[1].points) = PatternCount(previewSequence[1].id)

\* The spiral was generated after the maximum altitude and the brightness
\* had been moved away from their initial positions; it rises above the
\* maximum altitude.
C25_Witness ==
    /\ op.name = "pattern"
    /\ previewSequence # <<>>
    /\ previewSequence[1].id = PreviewId("spiral")
    /\ flightSettings.maxAltitude = 10
    /\ ledSettings.brightness = 10
    /\ previewSequence[1].points[1].brightness = 10 * 168
    /\ previewSequence[1].points[24].z > flightSettings.maxAltitude * Unit

\* C26: the waypoint a click at pixel (px, py) of the top-down canvas
\* adds is drawn there at (px, py); the waypoint a click at (px, py) of
\* the front canvas adds has x = px, y = 150, z = max(0, (300 - py) / 3)
\* and is drawn in the front view at (px, 300 - 3 z) = (px, py); the same
\* holds in the clicked column for every whole pixel row 0..300.
C26_ClickRoundTrip ==
    (op.name = "click" /\ Len(unsavedPoints) > 0) =>
        LET px == op.id.x * Unit
            py == op.id.y * Unit
            waypoint == unsavedPoints[Len(unsavedPoints)]
        IN  IF op.id.isFrontView
            THEN /\ waypoint.x = px
                 /\ waypoint.y = 150 * Unit
                 /\ waypoint.z >= 0
                 /\ waypoint.z * 3 = Max(0, 300 * Unit - py)
                 /\ WaypointPixel(waypoint, TRUE) = <<px, 300 * Unit - 3 * waypoint.z>>
                 /\ WaypointPixel(waypoint, TRUE) = <<px, py>>
                 /\ \A row \in 0..300 :
                       WaypointPixel(NewPoint(px, row * Unit, TRUE, currentAltitude,
                                              currentDrawingColor, now), TRUE)
                           = <<px, row * Unit>>
            ELSE /\ WaypointPixel(waypoint, FALSE) = <<px, py>>
                 /\ \A row \in 0..300 :
                       WaypointPixel(NewPoint(px, row * Unit, FALSE, currentAltitude,
                                              currentDrawingColor, now), FALSE)
                           = <<px, row * Unit>>

\* A front click inside the canvas followed a top-down click.
C26_Witness ==
    /\ op.name = "click"
    /\ op.id.isFrontView
    /\ op.id.y = 212
    /\ Len(unsavedPoints) = 2
    /\ unsavedPoints[2].z = 88000
    /\ unsavedPoints[1].y = 300 * Unit

\* Each channel is within 1 of the given one.
Near(rgb, r, g, b) ==
    /\ Abs(rgb.r - r) <= 1
    /\ Abs(rgb.g - g) <= 1
    /\ Abs(rgb.b - b) <= 1

\* C27: with saturation 100 and lightness 50, hslToRgb turns the hues 0,
\* 60, 120, 180, 240, 300 into red, yellow, green, cyan, blue, magenta,
\* within 1 per channel.
C27_CanonicalColors ==
    (swatch.rgb # <<>> /\ swatch.s = 100 /\ swatch.l = 50) =>
        /\ swatch.h = 0 => Near(swatch.rgb[1], 255, 0, 0)
        /\ swatch.h = 60 => Near(swatch.rgb[1], 255, 255, 0)
        /\ swatch.h = 120 => Near(swatch.rgb[1], 0, 255, 0)
        /\ swatch.h = 180 => Near(swatch.rgb[1], 0, 255, 255)
        /\ swatch.h = 240 => Near(swatch.rgb[1], 0, 0, 255)
        /\ swatch.h = 300 => Near(swatch.rgb[1], 255, 0, 255)

\* Hue 180 at saturation 100, lightness 50 has been converted.
C27_Witness ==
    /\ op.name = "convert"
    /\ swatch.rgb # <<>>
    /\ swatch.h = 180
    /\ swatch.s = 100
    /\ swatch.l = 50
    /\ swatch.rgb[1] = [r |-> 0, g |-> 255, b |-> 255]

\* No waypoint of the list lies below the ground.
AboveGround(points) == \A k \in 1..Len(points) : points[k].z >= 0

\* C28: every waypoint of the draft, of the loaded preview, of every
\* committed sequence and of every generator's output has z >= 0.
C28_AltitudeNeverNegative ==
    /\ AboveGround(unsavedPoints)
    /\ \A k \in 1..Len(previewSequence) : AboveGround(previewSequence[k].points)
    /\ \A k \in 1..Len(sequences) : AboveGround(sequences[k].points)
    /\ \A pattern \in Patterns :
          AboveGround(WithSettings(pattern, flightSettings, ledSettings).points)

\* A sequence was committed that holds a front waypoint clicked on the
\* lower edge of the canvas and a waypoint clicked higher up.
C28_Witness ==
    /\ op.name = "save"
    /\ Len(sequences) = 1
    /\ \E k \in 1..Len(sequences[1].points) : sequences[1].points[k].z = 0
    /\ \E k \in 1..Len(sequences[1].points) : sequences[1].points[k].z > 0

\* C29: a click while no preview is loaded appends exactly one waypoint to
\* the draft: the draft grows by one, the earlier waypoints keep their
\* values and order, the new one is last, and hasUnsavedChanges is true.
C29_ClickAppendsOne ==
    [][(op'.name = "click" /\ previewSequence = <<>>) =>
          /\ Len(unsavedPoints') = Len(unsavedPoints) + 1
          /\ SubSeq(unsavedPoints', 1, Len(unsavedPoints)) = unsavedPoints
          /\ unsavedPoints'[Len(unsavedPoints')].timestamp = now'
          /\ unsavedPoints'[Len(unsavedPoints')].color = currentDrawingColor
          /\ hasUnsavedChanges']_vars

\* Two clicks in a row: the draft holds two clicked waypoints, the one
\* clicked first in front.
C29_Witness ==
    /\ op.name = "click"
    /\ previewSequence = <<>>
    /\ Len(unsavedPoints) = 2
    /\ unsavedPoints[1].timestamp >= ClockBase
    /\ unsavedPoints[2].timestamp > unsavedPoints[1].timestamp
    /\ unsavedPoints[1] # unsavedPoints[2]
    /\ hasUnsavedChanges

\* C30: a Save of a non-empty draft, a loaded pattern included, writes a
\* sequence whose duration is the largest timestamp of the draft + 1000.
C30_SaveWritesMaxTimestampDuration ==
    [][(op'.name = "save" /\ Len(unsavedPoints) > 0) =>
          LET id == IF Committed(activeSequence) # <<>>
                    THEN activeSequence ELSE now'
              largest == CHOOSE t \in {unsavedPoints[k].timestamp :
                                          k \in 1..Len(unsavedPoints)} :
                             \A k \in 1..Len(unsavedPoints) :
                                 unsavedPoints[k].timestamp <= t
          IN  /\ \A k \in 1..Len(sequences') :
                    sequences'[k].id = id =>
                        sequences'[k].duration = largest + 1000
              /\ \A k \in 1..Len(storage'.list) :
                    storage'.list[k].id = id =>
                        storage'.list[k].duration = largest + 1000
              /\ \/ Find(sequences', id) # <<>>
                 \/ Find(storage'.list, id) # <<>>]_vars

\* The formation pattern, generated with duration 14000, has been saved
\* with one clicked waypoint behind it.
C30_Witness ==
    /\ op.name = "save"
    /\ Committed(activeSequence) # <<>>
    /\ Len(Committed(activeSequence)[1].points) = 13
    /\ SubSeq(Committed(activeSequence)[1].points, 1, 12) = generateFormationPattern.points
    /\ Committed(activeSequence)[1].duration = Committed(activeSequence)[1].points[13].timestamp + 1000
    /\ Committed(activeSequence)[1].duration # generateFormationPattern.duration

\* C31: whenever a preview is loaded, hasUnsavedChanges is true.
C31_PreviewIsDirty ==
    previewSequence # <<>> => hasUnsavedChanges

C34_CommittedHasPoints ==
    \A k \in 1..Len(sequences) :
        /\ Len(sequences[k].points) > 0
        /\ sequences[k].duration > 0

\* A Save was rejected for its empty draft while the collection held two
\* sequences.
C34_Witness ==
    /\ op.name = "save"
    /\ Len(unsavedPoints) = 0
    /\ Len(sequences) >= 2

\* The timestamps of the list do not decrease in waypoint order.
Ascending(points) ==
    \A k \in 1..(Len(points) - 1) : points[k].timestamp <= points[k + 1].timestamp

\* The timestamps of the list increase in waypoint order.
StrictlyAscending(points) ==
    \A k \in 1..(Len(points) - 1) : points[k].timestamp < points[k + 1].timestamp

\* C35: the timestamps of the draft and of every committed sequence do not
\* decrease in waypoint order, and every generator's timestamps increase.
C35_TimestampsAscend ==
    /\ Ascending(unsavedPoints)
    /\ \A k \in 1..Len(sequences) : Ascending(sequences[k].points)
    /\ \A pattern \in Patterns : StrictlyAscending(pattern.points)

\* The formation pattern has been saved with a clicked waypoint behind
\* its last generated one.
C35_Witness ==
    /\ op.name = "save"
    /\ Committed(activeSequence) # <<>>
    /\ Len(Committed(activeSequence)[1].points) = 13
    /\ Committed(activeSequence)[1].points[12].timestamp = 8600
    /\ Committed(activeSequence)[1].points[13].timestamp >= ClockBase

\* The collection without the sequence of the given id.
Without(seqs, id) == SelectSeq(seqs, LAMBDA seq : seq.id # id)

\* C37: deleting a sequence that is not the active one removes only that
\* sequence from the collection and leaves the active pointer, the draft
\* points, the draft name, hasUnsavedChanges and the preview unchanged.
C37_DeleteOtherKeepsDraft ==
    [][(op'.name = "delete" /\ op'.id # activeSequence) =>
          /\ sequences' = Without(sequences, op'.id)
          /\ activeSequence' = activeSequence
          /\ unsavedPoints' = unsavedPoints
          /\ sequenceName' = sequenceName
          /\ hasUnsavedChanges' = hasUnsavedChanges
          /\ previewSequence' = previewSequence]_vars

\* A sequence other than the active one was deleted while a loaded pattern
\* was the dirty draft.
C37_Witness ==
    /\ op.name = "delete"
    /\ op.id # op.active
    /\ activeSequence = op.active
    /\ Committed(activeSequence) # <<>>
    /\ previewSequence # <<>>
    /\ hasUnsavedChanges
    /\ Len(unsavedPoints) > 0

InterpolatedShown ==
    /\ displaySequence # <<>>
    /\ Len(displaySequence[1].points) >= 2
    /\ displaySequence[1].duration > 0
    /\ effectiveTime # NaN

\* floor(p * (N - 1)) of the shown sequence, p = (t mod D) / D
SegmentIndexShown ==
    SegmentProgress(effectiveTime % displaySequence[1].duration,
                    Len(displaySequence[1].points))
        \div displaySequence[1].duration

\* floor(p * N) of the shown sequence
ColorIndexShown ==
    ColorIndex(effectiveTime % displaySequence[1].duration,
               Len(displaySequence[1].points), displaySequence[1].duration)

\* C36: for a shown sequence with N >= 2 points and duration D > 0, at
\* every time t >= 0 the colour index is the segment index or the one
\* after it, the segment's next index is at most N - 1, and the drone is
\* placed without running past the last waypoint.
C36_IndicesStayTogether ==
    InterpolatedShown =>
        /\ SegmentIndexShown <= ColorIndexShown
        /\ ColorIndexShown <= SegmentIndexShown + 1
        /\ SegmentIndexShown + 1 <= Len(displaySequence[1].points) - 1
        /\ drone # <<>>
        /\ drone[1].position # Thrown

\* Playback is in the last segment of a sequence of three or more points,
\* the colour index one ahead of the segment index.
C36_Witness ==
    /\ InterpolatedShown
    /\ op.name = "tick"
    /\ Len(displaySequence[1].points) >= 3
    /\ SegmentIndexShown = Len(displaySequence[1].points) - 2
    /\ ColorIndexShown = SegmentIndexShown + 1


\* The waypoints of the sequence whose display coordinates are all finite.
ValidWaypoints(sequence) ==
    SelectSeq(sequence.points, LAMBDA p : isFinitePoint(WorldPoint(p)))

\* The path the preview should draw: nothing for fewer than two valid
\* waypoints, else a line through the valid waypoints and one marker per
\* valid waypoint, at its position and in its colour.
PathOfValidWaypoints(sequence) ==
    LET kept == ValidWaypoints(sequence)
    IN  IF Len(kept) < 2 THEN <<>>
        ELSE <<[line |-> [idx \in 1..Len(kept) |-> WorldPoint(kept[idx])],
                markers |-> [idx \in 1..Len(kept) |->
                                [position |-> WorldPoint(kept[idx]),
                                 color |-> kept[idx].color,
                                 label |-> idx]]]>>

\* C38: the preview's flight path leaves out every waypoint with a
\* coordinate that is not finite and draws nothing when fewer than two
\* valid waypoints remain; what it draws is the valid waypoints, each at
\* its own position and in its own colour.  The sequence keeps the
\* waypoints the path leaves out.
C38_PathOfValidWaypoints ==
    /\ displaySequence = <<>> => path = <<>>
    /\ displaySequence # <<>> =>
           /\ path = PathOfValidWaypoints(displaySequence[1])
           /\ Committed(displaySequence[1].id) = displaySequence

=============================================================================
